---- MODULE Spec2Model ----
(***************************************************************************)
(* A model of the OLX scraper in src/app.py: StealthyScraper.fetch_page    *)
(* (retry loop), parse_listing, find_listings, scrape_search_results       *)
(* (pagination loop) and main with its top-level exception handlers.       *)
(*                                                                         *)
(* Strings are sequences of chunks: the string is the concatenation of its *)
(* chunks, a blank is the chunk " ".  lower(), strip(), startswith() and   *)
(* the substring test `in` are computed on that representation.            *)
(***************************************************************************)
EXTENDS Integers, Sequences, FiniteSets, TLC

(* ------------------------------ bounds -------------------------------- *)
\* largest max_retries with which fetch_page is called on its own
MaxRetriesBound == 3
\* largest value of --pages
MaxPages == 2
\* largest number of candidate elements on a page given to find_listings
MaxListings == 3

(* ------------------------- program constants -------------------------- *)
retry_delay == 30
DefaultMaxRetries == 3
ThinkMin == 2
ThinkMax == 5
PaceMin == 10
PaceMax == 20
HttpOk == 200

(* --------------------------- string helpers --------------------------- *)
\* str.lower() on one chunk
LowerChunk(w) ==
    CASE w = "CAPTCHA" -> "captcha"
      [] w = "Captcha" -> "captcha"
      [] w = "Detected" -> "detected"
      [] w = "DETECTED" -> "detected"
      [] w = "Unusual" -> "unusual"
      [] w = "UNUSUAL" -> "unusual"
      [] w = "Traffic" -> "traffic"
      [] w = "TRAFFIC" -> "traffic"
      [] w = "OK" -> "ok"
      [] w = "HTTP" -> "http"
      [] w = "S" -> "s"
      [] OTHER -> w

\* str.lower()
Lower(s) == [i \in 1..Len(s) |-> LowerChunk(s[i])]

\* the substring test `p in s`
Contains(s, p) ==
    \E i \in 0..(Len(s) - Len(p)) : SubSeq(s, i + 1, i + Len(p)) = p

\* str.startswith
StartsWith(s, p) == Len(s) >= Len(p) /\ SubSeq(s, 1, Len(p)) = p

RECURSIVE LStrip(_)
LStrip(s) == IF s # <<>> /\ Head(s) = " " THEN LStrip(Tail(s)) ELSE s

RECURSIVE RStrip(_)
RStrip(s) ==
    IF s # <<>> /\ s[Len(s)] = " " THEN RStrip(SubSeq(s, 1, Len(s) - 1)) ELSE s

\* str.strip()
Strip(s) == RStrip(LStrip(s))

\* the block-indicator phrases of fetch_page
CaptchaPhrase == <<"captcha">>
TrafficPhrase == <<"detected", " ", "unusual", " ", "traffic">>

\* Python's None
None == [none |-> TRUE]

\* a list held by a variable that may also be None, the content of a file
List(l) == [list |-> l]
File(data) == [data |-> data]

\* a matched node with its text, an attribute value
Node(t) == [text |-> t]
Attr(s) == [str |-> s]

\* the sentinel of parse_listing and the site origin it prepends
NA == <<"N/A">>
Origin == <<"http", "s", "://", "www.olx.in">>

(* --------------------------- listing elements -------------------------- *)
(* A listing element (a bs4 Tag) is described by what the lookups of       *)
(* parse_listing and find_listings find in it:                             *)
(*   lsel      the indices of the listing_selectors that match it          *)
(*   classed   it is a div or li carrying a class attribute                *)
(*   heading   it has a h2/h3/strong/span descendant with a class          *)
(*   rupee     it has a text node containing the rupee sign                *)
(*   price, title, loc, date   per selector of the cascade, the node that  *)
(*             select_one finds (None when it finds nothing)               *)
(*   a         the first anchor (None, or its href: None or Attr)          *)
(*   img       the first image (None, or its src, data_src, srcset)        *)
(*   broken    a lookup in it raises                                       *)
NoMatch(n) == [i \in 1..n |-> None]
At(n, k, t) == [i \in 1..n |-> IF i = k THEN Node(t) ELSE None]
Img(src, data_src, srcset) == [src |-> src, data_src |-> data_src, srcset |-> srcset]

EGood ==
    [lsel |-> {1}, classed |-> TRUE, heading |-> TRUE, rupee |-> TRUE,
     price |-> At(5, 1, <<" ", "Rs", " ", "500", " ">>),
     title |-> At(5, 1, <<"Car", " ", "cover">>),
     loc |-> At(4, 1, <<"Pune">>),
     date |-> At(4, 1, <<"Today">>),
     a |-> [href |-> Attr(<<"/item/123">>)],
     img |-> Img(Attr(<<"http", "s://img/1.jpg">>), None, None),
     broken |-> FALSE]

ELegacy ==
    [lsel |-> {2, 5}, classed |-> TRUE, heading |-> TRUE, rupee |-> FALSE,
     price |-> [i \in 1..5 |-> IF i = 3 THEN Node(<<"new", " ", "price">>)
                               ELSE IF i = 4 THEN Node(<<"old", " ", "price">>)
                               ELSE None],
     title |-> [i \in 1..5 |-> IF i = 2 THEN Node(<<"new", " ", "title">>)
                               ELSE IF i = 4 THEN Node(<<"old", " ", "title">>)
                               ELSE None],
     loc |-> At(4, 4, <<"Goa", " ">>),
     date |-> At(4, 3, <<" ", "3", " ", "days">>),
     a |-> [href |-> Attr(<<"http", "://", "other.example/x">>)],
     img |-> Img(None, Attr(<<"lazy.jpg">>), Attr(<<"set.jpg">>)),
     broken |-> FALSE]

\* matches no field selector at all, found by the heuristic only
EBare ==
    [lsel |-> {}, classed |-> TRUE, heading |-> TRUE, rupee |-> TRUE,
     price |-> NoMatch(5), title |-> NoMatch(5), loc |-> NoMatch(4),
     date |-> NoMatch(4), a |-> None, img |-> None, broken |-> FALSE]

\* matched nodes without text, attributes present but empty
EBlank ==
    [lsel |-> {1}, classed |-> TRUE, heading |-> TRUE, rupee |-> FALSE,
     price |-> At(5, 2, <<>>),
     title |-> At(5, 1, <<" ", " ">>),
     loc |-> At(4, 1, <<"Agra">>),
     date |-> NoMatch(4),
     a |-> [href |-> Attr(<<>>)],
     img |-> Img(Attr(<<>>), Attr(<<"lazy.jpg">>), None),
     broken |-> FALSE]

\* an anchor without href, an image without any source attribute
ENoHref ==
    [lsel |-> {3}, classed |-> TRUE, heading |-> FALSE, rupee |-> FALSE,
     price |-> At(5, 5, <<"900">>),
     title |-> At(5, 5, <<"Cover">>),
     loc |-> NoMatch(4),
     date |-> At(4, 4, <<"May">>),
     a |-> [href |-> None],
     img |-> Img(None, None, None),
     broken |-> FALSE]

\* an element on which a lookup raises
EBroken == [EGood EXCEPT !.broken = TRUE]

\* a second element with the markup of EGood
EGood2 ==
    [EGood EXCEPT !.title = At(5, 1, <<"Seat", " ", "cover">>),
                  !.price = At(5, 1, <<"Rs", " ", "750">>),
                  !.a = [href |-> Attr(<<"/item/456">>)]]

(* ----------------------------- parse_listing --------------------------- *)
\* mutant: the last selector of the cascade that finds a node wins
FirstMatchFromEnd(matches, i) ==
    IF \A k \in 1..Len(matches) : matches[k] = None THEN 0
    ELSE CHOOSE k \in 1..Len(matches) :
            /\ matches[k] # None
            /\ \A j \in (k + 1)..Len(matches) : matches[j] = None

RECURSIVE FirstMatch(_, _)
\* the index of the first selector of the cascade that finds a node, 0 if none
FirstMatch(matches, i) ==
    IF i > Len(matches) THEN 0
    ELSE IF matches[i] # None THEN i
    ELSE FirstMatch(matches, i + 1)

\* "Try each selector until one works": the stripped text of the first match
Cascade(matches) ==
    LET k == FirstMatch(matches, 1)
    IN IF k = 0 THEN NA ELSE Strip(matches[k].text)

\* link = first anchor's href, made absolute
ExtractLink(listing) ==
    IF listing.a # None /\ listing.a.href # None
    THEN LET link == listing.a.href.str
         IN IF ~StartsWith(link, <<"http">>) THEN Origin \o link ELSE link
    ELSE NA

\* image_url = the first present attribute among src, data-src, srcset
ExtractImage(listing) ==
    IF listing.img # None
    THEN IF listing.img.src # None THEN listing.img.src.str
         ELSE IF listing.img.data_src # None THEN listing.img.data_src.str
         ELSE IF listing.img.srcset # None THEN listing.img.srcset.str
         ELSE NA
    ELSE NA

parse_listing(listing) ==
    IF listing.broken THEN None
    ELSE [title |-> Cascade(listing.title),
          price |-> Cascade(listing.price),
          location |-> Cascade(listing.loc),
          date_posted |-> Cascade(listing.date),
          link |-> ExtractLink(listing),
          image_url |-> ExtractImage(listing)]

(* ----------------------------- find_listings --------------------------- *)
NumListingSelectors == 5

\* mutant: select_one in the place of select
SelectFirstOnly(elems, k) ==
    LET all == SelectSeq(elems, LAMBDA e : k \in e.lsel)
    IN IF all = <<>> THEN <<>> ELSE <<Head(all)>>

\* soup.select(selector): the elements of the page the selector matches
Select(elems, k) == SelectSeq(elems, LAMBDA e : k \in e.lsel)

RECURSIVE FirstSelector(_, _)
FirstSelector(elems, k) ==
    IF k > NumListingSelectors THEN 0
    ELSE IF Select(elems, k) # <<>> THEN k
    ELSE FirstSelector(elems, k + 1)

\* the structural test of the general approach
Heuristic(e) ==
    LET has_heading == e.heading
        has_price == e.rupee
        has_link == e.a # None /\ e.a.href # None
    IN e.classed /\ has_heading /\ (has_price \/ has_link)

\* a page body: its text chunks and the candidate elements in document order
Body(text, elems) == [text |-> text, elems |-> elems]
EmptyBody == Body(<<>>, <<>>)

\* mutant: the general approach runs in addition to the selectors
find_listings_both(html_content) ==
    IF html_content = EmptyBody THEN <<>>
    ELSE LET k == FirstSelector(html_content.elems, 1)
         IN SelectSeq(html_content.elems,
                      LAMBDA e : (k # 0 /\ k \in e.lsel) \/ Heuristic(e))

find_listings(html_content) ==
    IF html_content = EmptyBody THEN <<>>
    ELSE LET k == FirstSelector(html_content.elems, 1)
         IN IF k # 0 THEN Select(html_content.elems, k)
            ELSE SelectSeq(html_content.elems, Heuristic)

RECURSIVE ParseAll(_)
\* the loop over the listings of one page: page_results
ParseAll(listings) ==
    IF listings = <<>> THEN <<>>
    ELSE LET result == parse_listing(Head(listings))
         IN (IF result # None THEN <<result>> ELSE <<>>) \o ParseAll(Tail(listings))

(* ------------------------------ the inputs ----------------------------- *)
StatusCodes == {200, 404, 503}

BListings == Body(<<"ok">>, <<EGood, ELegacy, EBare>>)
BBlank == Body(<<"OK">>, <<EBlank, EBroken, ENoHref>>)
BHeuristic == Body(<<"ok">>, <<EBare>>)
BNothing == Body(<<"ok">>, <<>>)
BTraffic == Body(<<"Unusual", " ", "traffic">>, <<EGood>>)
BDetected == Body(<<"we", " ", "DETECTED", " ", "unusual", " ", "Traffic">>, <<>>)
BCaptcha == Body(<<"re", "CAPTCHA">>, <<EGood>>)
\* two elements of the known markup and one that only the general approach finds
BMixed == Body(<<"ok">>, <<EGood, EBare, EGood2>>)

\* the response bodies the server may send
Bodies == {EmptyBody, BListings, BBlank, BHeuristic, BNothing, BTraffic,
           BDetected, BCaptcha, BMixed}

Formats == {"json", "csv", "both"}

(* the inputs of find_listings and parse_listing taken on their own *)
\* what one selector of a cascade finds: nothing, or a node with some text
TextNodes == {None, Node(<<"cur">>), Node(<<" ", "leg", " ">>)}

\* what the selectors of a cascade of n selectors find (at most two finds)
Matches(n) ==
    {m \in [1..n -> TextNodes] : Cardinality({i \in 1..n : m[i] # None}) <= 2}

AnchorInputs ==
    {None, [href |-> None], [href |-> Attr(<<>>)],
     [href |-> Attr(<<"/item/123">>)],
     [href |-> Attr(<<"http", "://", "olx.in/x">>)],
     [href |-> Attr(<<"http", "s", "://", "www.olx.in", "/item/9">>)],
     [href |-> Attr(<<"HTTP", "S", "://", "www.olx.in", "/item/9">>)],
     [href |-> Attr(<<"tel", ":", "+911234">>)]}

ImgInputs ==
    {None, Img(None, None, None), Img(Attr(<<"a.jpg">>), Attr(<<"b.jpg">>), None),
     Img(None, Attr(<<"b.jpg">>), Attr(<<"c.jpg">>)), Img(None, None, Attr(<<"c.jpg">>))}

\* listing elements that differ from EGood in one lookup
ParseInputs ==
    {[EGood EXCEPT !.title = m] : m \in Matches(5)}
    \cup {[EGood EXCEPT !.price = m] : m \in Matches(5)}
    \cup {[EGood EXCEPT !.loc = m] : m \in Matches(4)}
    \cup {[EGood EXCEPT !.date = m] : m \in Matches(4)}
    \cup {[EGood EXCEPT !.a = x] : x \in AnchorInputs}
    \cup {[EGood EXCEPT !.img = x] : x \in ImgInputs}

\* no div or li with a class: the general approach does not consider it
EPlain == [EBare EXCEPT !.classed = FALSE]
\* matched by no listing selector, with a heading and a link but no price
ELinkOnly == [ELegacy EXCEPT !.lsel = {}]
\* matched by no listing selector, with a price but no heading
ENoHeading == [EBare EXCEPT !.heading = FALSE]
\* matched by the last listing selector only
ELast == [ENoHref EXCEPT !.lsel = {5}]

LocateElements ==
    {EGood, ELegacy, EBare, EBlank, EBroken, EPlain, ELinkOnly, ENoHeading, ELast}

\* the pages given to find_listings
PageInputs ==
    {EmptyBody}
    \cup {Body(<<"ok">>, es) :
            es \in UNION {[1..n -> LocateElements] : n \in 0..MaxListings}}
    \cup {Body(<<"ok">>, <<e>>) : e \in ParseInputs}

(* ------------------------------- the state ----------------------------- *)
VARIABLES
    pc,            \* the position of the single thread of control
    format,        \* args.format
    max_pages,     \* args.pages, the max_pages of scrape_search_results
    current_page,  \* scrape_search_results: current_page
    all_results,   \* scrape_search_results: all_results
    html_content,  \* scrape_search_results: html_content
    results,       \* main: what scrape_search_results returned (None before)
    url,           \* fetch_page: url
    max_retries,   \* fetch_page: max_retries
    retries,       \* fetch_page: retries
    response,      \* fetch_page: response
    fetch_result,  \* the value fetch_page returned
    debug_files,   \* olx_page_<n>.html, by n
    json_file,     \* the JSON output file (None: not written)
    csv_file,      \* the CSV output file (None: not written)
    exit,          \* how the process ended
    gets,          \* history: GET requests issued by the current call
    events,        \* history: the sleeps and GETs of the current call, in order
    cooldowns,     \* history: the cooldown sleeps of the current call
    lastSleep,     \* history: the most recent time.sleep
    allNon200,     \* history: every attempt so far got a response, status # 200
    allTraffic,    \* history: every attempt so far got a body with "unusual traffic"
    allDetected,   \* history: ... with "detected unusual traffic"
    fetched,       \* history: the fetch_page calls of the run, each with the
                   \* page index, the url and the result (None until it returns)
    pacing,        \* history: the pages after which the pacing sleep was slept
    total_gets,    \* history: the GET requests issued since the start of the run
    listings,      \* scrape_search_results: listings
    next_listing,  \* the position of `for listing in listings`
    page_results,  \* scrape_search_results: page_results
    parsed         \* history: what parse_listing returned for listings[i]

fetchVars == <<url, max_retries, retries, response, fetch_result>>
fetchHist == <<gets, events, cooldowns, allNon200, allTraffic, allDetected>>
scrapeVars == <<format, max_pages, current_page, all_results, html_content, results>>
fileVars == <<debug_files, json_file, csv_file>>
pageVars == <<listings, next_listing, page_results, parsed>>
vars == <<pc, fetchVars, fetchHist, scrapeVars, fileVars, exit, lastSleep,
          fetched, pacing, total_gets, pageVars>>

base_url == <<"http", "s://www.olx.in/items/q-car-cover">>

\* page 1 is the base URL, page n > 1 is f"{base_url}?page={n}"
PageUrl(n) == IF n = 1 THEN base_url ELSE base_url \o <<"?page=", ToString(n)>>

\* `not html_content`
Falsy(v) == v = None \/ v = EmptyBody

\* mutant: the phrases are looked up without lower()
IsBlockedCaseSensitive(text) ==
    \/ Contains(text, CaptchaPhrase)
    \/ Contains(text, TrafficPhrase)

\* "Check if we might be blocked"
IsBlocked(text) ==
    \/ Contains(Lower(text), CaptchaPhrase)
    \/ Contains(Lower(text), TrafficPhrase)

\* mutant: the wait after a network error does not grow
BackoffFixed(r) == retry_delay

\* the wait after a network error
Backoff(r) == retry_delay * r

\* mutant: only server errors count as a bad status
IsBadStatusServerOnly(status_code) == status_code >= 500

\* `response.status_code != 200`
IsBadStatus(status_code) == status_code # HttpOk

\* mutant: one attempt too many
RetriesLeftInclusive(r, m) == r <= m

\* `retries < max_retries`
RetriesLeft(r, m) == r < m

\* the case-insensitive test for the words "unusual traffic" in a body
HasUnusualTraffic(body) ==
    Contains(Lower(body.text), <<"unusual", " ", "traffic">>)

\* the case-insensitive test for the words "detected unusual traffic" in a body
HasDetectedTraffic(body) ==
    Contains(Lower(body.text), <<"detected", " ", "unusual", " ", "traffic">>)

Slept(kind, dur) == [kind |-> kind, dur |-> dur]
NoSleep == Slept("none", 0)

InitCommon ==
    /\ current_page = 1
    /\ all_results = <<>>
    /\ results = None
    /\ retries = 0
    /\ response = None
    /\ fetch_result = None
    /\ debug_files = [n \in 1..(MaxPages + 1) |-> None]
    /\ json_file = None
    /\ csv_file = None
    /\ exit = "running"
    /\ gets = 0
    /\ events = <<>>
    /\ cooldowns = <<>>
    /\ lastSleep = NoSleep
    /\ allNon200 = TRUE
    /\ allTraffic = TRUE
    /\ allDetected = TRUE
    /\ fetched = <<>>
    /\ pacing = <<>>
    /\ total_gets = 0
    /\ listings = <<>>
    /\ next_listing = 1
    /\ page_results = <<>>
    /\ parsed = <<>>

\* the process is started with its command-line arguments
Init ==
    /\ pc = "main"
    /\ format \in Formats
    /\ max_pages \in 0..MaxPages
    /\ url = <<>>
    /\ max_retries = DefaultMaxRetries
    /\ html_content = None
    /\ InitCommon

\* the process is started without --format: the default, both files
InitRun ==
    /\ pc = "main"
    /\ format = "both"
    /\ max_pages \in 0..MaxPages
    /\ url = <<>>
    /\ max_retries = DefaultMaxRetries
    /\ html_content = None
    /\ InitCommon

\* fetch_page(url, max_retries) is called on its own
InitFetch ==
    /\ pc = "fetch_loop"
    /\ format = "both"
    /\ max_pages = 0
    /\ url = base_url
    /\ max_retries \in 0..MaxRetriesBound
    /\ html_content = None
    /\ InitCommon

\* a fetched page is handed to find_listings and the loop over the listings
InitExtract ==
    /\ pc = "scrape_find"
    /\ format = "both"
    /\ max_pages = 1
    /\ url = base_url
    /\ max_retries = DefaultMaxRetries
    /\ html_content \in PageInputs
    /\ InitCommon

(* ------------------------------ fetch_page ----------------------------- *)
\* while retries < max_retries ... return None
\* (the local `response` is gone once the call returns)
fetch_page_loop ==
    /\ pc = "fetch_loop"
    /\ IF RetriesLeft(retries, max_retries)
       THEN /\ pc' = "fetch_wait"
            /\ UNCHANGED <<fetch_result, response>>
       ELSE /\ fetch_result' = None
            /\ response' = None
            /\ pc' = "fetch_return"
    /\ UNCHANGED <<url, max_retries, retries, fetchHist, scrapeVars, pageVars, fileVars,
                   exit, lastSleep, fetched, pacing, total_gets>>

\* mutant: the request is sent without the think-time sleep on a retry
fetch_page_wait_first_only ==
    /\ pc = "fetch_wait"
    /\ IF retries = 0
       THEN /\ \E wait_time \in {ThinkMin, ThinkMax} :
                  lastSleep' = Slept("think", wait_time)
            /\ events' = Append(events, "think")
       ELSE UNCHANGED <<lastSleep, events>>
    /\ pc' = "fetch_get"
    /\ UNCHANGED <<fetchVars, gets, cooldowns, allNon200, allTraffic, allDetected,
                   scrapeVars, pageVars, fileVars, exit, fetched, pacing, total_gets>>

\* wait_time = random.uniform(2, 5); time.sleep(wait_time)
\* (the two ends of the interval stand for the values in between)
fetch_page_wait ==
    /\ pc = "fetch_wait"
    /\ \E wait_time \in {ThinkMin, ThinkMax} :
          lastSleep' = Slept("think", wait_time)
    /\ events' = Append(events, "think")
    /\ pc' = "fetch_get"
    /\ UNCHANGED <<fetchVars, gets, cooldowns, allNon200, allTraffic, allDetected,
                   scrapeVars, pageVars,
                   fileVars, exit, fetched, pacing, total_gets>>

\* headers = self.get_random_headers(); response = self.session.get(...)
fetch_page_get ==
    /\ pc = "fetch_get"
    /\ \/ \E status \in StatusCodes, text \in Bodies :
             /\ response' = [status_code |-> status, text |-> text]
             /\ gets' = gets + 1
             /\ total_gets' = total_gets + 1
             /\ events' = Append(events, "get")
             /\ allNon200' = (allNon200 /\ status # HttpOk)
             /\ allTraffic' = (allTraffic /\ HasUnusualTraffic(text))
             /\ allDetected' = (allDetected /\ HasDetectedTraffic(text))
             /\ pc' = "fetch_eval"
       \/ \* the request fails with a requests.exceptions.RequestException
          /\ gets' = gets + 1
          /\ total_gets' = total_gets + 1
          /\ events' = Append(events, "get")
          /\ allNon200' = FALSE
          /\ allTraffic' = FALSE
          /\ allDetected' = FALSE
          /\ pc' = "fetch_except"
          /\ UNCHANGED response
       \/ \* get_random_headers raises an exception that is no RequestException
          /\ pc' = "raised"
          /\ UNCHANGED <<response, gets, total_gets, events, allNon200, allTraffic,
                         allDetected>>
    /\ UNCHANGED <<url, max_retries, retries, fetch_result, cooldowns, scrapeVars, pageVars,
                   fileVars, exit, lastSleep, fetched, pacing>>

\* retries += 1; time.sleep(self.retry_delay); continue
\* (`response` is not read again before the next request assigns it)
FixedCooldown(cause) ==
    /\ retries' = retries + 1
    /\ lastSleep' = Slept("cooldown", retry_delay)
    /\ cooldowns' = Append(cooldowns, [after |-> cause, dur |-> retry_delay,
                                       retries |-> retries + 1])
    /\ events' = Append(events, "cooldown")
    /\ pc' = "fetch_loop"
    /\ response' = None
    /\ UNCHANGED fetch_result

\* mutant: the status is tested first and a 200 is returned as it is
fetch_page_evaluate_status_first ==
    /\ pc = "fetch_eval"
    /\ IF IsBadStatus(response.status_code)
       THEN FixedCooldown(IF IsBlocked(response.text.text) THEN "blocked" ELSE "status")
       ELSE /\ fetch_result' = response.text
            /\ response' = None
            /\ pc' = "fetch_return"
            /\ UNCHANGED <<retries, lastSleep, cooldowns, events>>
    /\ UNCHANGED <<url, max_retries, gets, allNon200, allTraffic, allDetected, scrapeVars, pageVars,
                   fileVars, exit, fetched, pacing, total_gets>>

\* the classification of the response
fetch_page_evaluate ==
    /\ pc = "fetch_eval"
    /\ IF IsBlocked(response.text.text)
       THEN FixedCooldown("blocked")
       ELSE IF IsBadStatus(response.status_code)
       THEN FixedCooldown("status")
       ELSE /\ fetch_result' = response.text
            /\ response' = None
            /\ pc' = "fetch_return"
            /\ UNCHANGED <<retries, lastSleep, cooldowns, events>>
    /\ UNCHANGED <<url, max_retries, gets, allNon200, allTraffic, allDetected, scrapeVars, pageVars,
                   fileVars, exit, fetched, pacing, total_gets>>

\* mutant: the wait after a network error is slept on the last attempt too
fetch_page_except_always_sleeps ==
    /\ pc = "fetch_except"
    /\ retries' = retries + 1
    /\ lastSleep' = Slept("cooldown", Backoff(retries + 1))
    /\ cooldowns' = Append(cooldowns, [after |-> "network",
                                       dur |-> Backoff(retries + 1),
                                       retries |-> retries + 1])
    /\ events' = Append(events, "cooldown")
    /\ pc' = "fetch_loop"
    /\ UNCHANGED <<response, fetch_result>>
    /\ UNCHANGED <<url, max_retries, gets, allNon200, allTraffic, allDetected, scrapeVars, pageVars,
                   fileVars, exit, fetched, pacing, total_gets>>

\* except requests.exceptions.RequestException
fetch_page_except ==
    /\ pc = "fetch_except"
    /\ retries' = retries + 1
    /\ IF RetriesLeft(retries + 1, max_retries)
       THEN /\ lastSleep' = Slept("cooldown", Backoff(retries + 1))
            /\ cooldowns' = Append(cooldowns, [after |-> "network",
                                               dur |-> Backoff(retries + 1),
                                               retries |-> retries + 1])
            /\ events' = Append(events, "cooldown")
            /\ pc' = "fetch_loop"
            /\ UNCHANGED <<response, fetch_result>>
       ELSE /\ fetch_result' = None
            /\ response' = None
            /\ pc' = "fetch_return"
            /\ UNCHANGED <<lastSleep, cooldowns, events>>
    /\ UNCHANGED <<url, max_retries, gets, allNon200, allTraffic, allDetected, scrapeVars, pageVars,
                   fileVars, exit, fetched, pacing, total_gets>>

fetch_page ==
    \/ fetch_page_loop
    \/ fetch_page_wait
    \/ fetch_page_get
    \/ fetch_page_evaluate
    \/ fetch_page_except

NextFetch == fetch_page

SpecFetch == InitFetch /\ [][NextFetch]_vars

(* ------------------------- scrape_search_results ----------------------- *)
\* mutant: one retry counter for the whole run
NewCallSharedCounter ==
    /\ retries' = retries
    /\ response' = None
    /\ gets' = 0
    /\ events' = <<>>
    /\ cooldowns' = <<>>
    /\ allNon200' = TRUE
    /\ allTraffic' = TRUE
    /\ allDetected' = TRUE

\* the history of one call of fetch_page starts empty
NewCall ==
    /\ retries' = 0
    /\ response' = None
    /\ gets' = 0
    /\ events' = <<>>
    /\ cooldowns' = <<>>
    /\ allNon200' = TRUE
    /\ allTraffic' = TRUE
    /\ allDetected' = TRUE

\* scraper = StealthyScraper(); all_results = []; current_page = 1
main_start ==
    /\ pc = "main"
    /\ all_results' = <<>>
    /\ current_page' = 1
    /\ pc' = "scrape_loop"
    /\ UNCHANGED <<format, max_pages, html_content, results, fetchVars, fetchHist,
                   fileVars, exit, lastSleep, fetched, pacing, total_gets, pageVars>>

\* while current_page <= max_pages: html_content = self.fetch_page(page_url)
\* ... return all_results
scrape_loop ==
    /\ pc = "scrape_loop"
    /\ IF current_page <= max_pages
       THEN /\ url' = PageUrl(current_page)
            /\ max_retries' = DefaultMaxRetries
            /\ NewCall
            /\ fetched' = Append(fetched, [page |-> current_page,
                                           url |-> PageUrl(current_page),
                                           result |-> None])
            /\ pc' = "fetch_loop"
            /\ UNCHANGED <<results, fetch_result>>
       ELSE /\ results' = List(all_results)
            /\ pc' = "main_json"
            /\ UNCHANGED <<fetchVars, fetchHist, fetched>>
    /\ UNCHANGED <<format, max_pages, current_page, all_results, html_content,
                   fileVars, exit, lastSleep, pacing, total_gets, pageVars>>

\* mutant: a page that could not be fetched ends the loop
scrape_after_fetch_break ==
    /\ pc = "fetch_return"
    /\ html_content' = fetch_result
    /\ fetched' = [fetched EXCEPT ![Len(fetched)].result = fetch_result]
    /\ IF Falsy(fetch_result)
       THEN /\ results' = List(all_results)
            /\ pc' = "main_json"
       ELSE /\ pc' = "scrape_debug"
            /\ UNCHANGED results
    /\ NewCall
    /\ UNCHANGED <<format, max_pages, current_page, all_results, url, max_retries,
                   fetch_result, fileVars, exit, lastSleep, pacing, total_gets, pageVars>>

\* if not html_content: current_page += 1; continue
\* (the locals of the call of fetch_page are gone once it has returned)
scrape_after_fetch ==
    /\ pc = "fetch_return"
    /\ html_content' = fetch_result
    /\ fetched' = [fetched EXCEPT ![Len(fetched)].result = fetch_result]
    /\ IF Falsy(fetch_result)
       THEN /\ current_page' = current_page + 1
            /\ pc' = "scrape_loop"
       ELSE /\ pc' = "scrape_debug"
            /\ UNCHANGED current_page
    /\ NewCall
    /\ UNCHANGED <<format, max_pages, all_results, results, url, max_retries,
                   fetch_result, fileVars, exit, lastSleep, pacing, total_gets, pageVars>>

\* with open(f"olx_page_{current_page}.html", "w") as f: f.write(html_content)
scrape_save_debug ==
    /\ pc = "scrape_debug"
    /\ \/ /\ debug_files' = [debug_files EXCEPT ![current_page] = html_content]
          /\ pc' = "scrape_find"
       \/ \* open or write raises OSError
          /\ pc' = "raised"
          /\ UNCHANGED debug_files
    /\ UNCHANGED <<scrapeVars, pageVars, fetchVars, fetchHist, json_file, csv_file, exit,
                   lastSleep, fetched, pacing, total_gets>>

\* listings = self.find_listings(html_content); page_results = []
scrape_find ==
    /\ pc = "scrape_find"
    /\ listings' = find_listings(html_content)
    /\ next_listing' = 1
    /\ page_results' = <<>>
    /\ parsed' = <<>>
    /\ pc' = "scrape_parse"
    /\ UNCHANGED <<scrapeVars, fetchVars, fetchHist, fileVars, exit, lastSleep,
                   fetched, pacing, total_gets>>

\* mutant: the loop over the listings ends at the first one that gives nothing
scrape_parse_break ==
    /\ pc = "scrape_parse"
    /\ IF next_listing <= Len(listings)
       THEN LET result == parse_listing(listings[next_listing])
            IN /\ page_results' = (IF result # None
                                   THEN Append(page_results, result)
                                   ELSE page_results)
               /\ parsed' = Append(parsed, result)
               /\ next_listing' = next_listing + 1
               /\ pc' = (IF result # None THEN "scrape_parse" ELSE "scrape_extend")
       ELSE /\ pc' = "scrape_extend"
            /\ UNCHANGED <<next_listing, page_results, parsed>>
    /\ UNCHANGED <<listings, scrapeVars, fetchVars, fetchHist, fileVars, exit,
                   lastSleep, fetched, pacing, total_gets>>

\* for listing in listings: result = self.parse_listing(listing);
\* if result: page_results.append(result)
scrape_parse ==
    /\ pc = "scrape_parse"
    /\ IF next_listing <= Len(listings)
       THEN LET result == parse_listing(listings[next_listing])
            IN /\ page_results' = (IF result # None
                                   THEN Append(page_results, result)
                                   ELSE page_results)
               /\ parsed' = Append(parsed, result)
               /\ next_listing' = next_listing + 1
               /\ pc' = "scrape_parse"
       ELSE /\ pc' = "scrape_extend"
            /\ UNCHANGED <<next_listing, page_results, parsed>>
    /\ UNCHANGED <<listings, scrapeVars, fetchVars, fetchHist, fileVars, exit,
                   lastSleep, fetched, pacing, total_gets>>

\* mutant: the records of the page are put in front of the earlier ones
scrape_extend_prepend ==
    /\ pc = "scrape_extend"
    /\ all_results' = page_results \o all_results
    /\ current_page' = current_page + 1
    /\ pc' = "scrape_pace"
    /\ UNCHANGED <<format, max_pages, html_content, results, fetchVars, fetchHist,
                   fileVars, exit, lastSleep, fetched, pacing, total_gets, pageVars>>

\* all_results.extend(page_results); current_page += 1
scrape_extend ==
    /\ pc = "scrape_extend"
    /\ all_results' = all_results \o page_results
    /\ current_page' = current_page + 1
    /\ pc' = "scrape_pace"
    /\ UNCHANGED <<format, max_pages, html_content, results, fetchVars, fetchHist,
                   fileVars, exit, lastSleep, fetched, pacing, total_gets, pageVars>>

\* if current_page <= max_pages: time.sleep(random.uniform(10, 20))
scrape_pace ==
    /\ pc = "scrape_pace"
    /\ IF current_page <= max_pages
       THEN /\ \E delay \in {PaceMin, PaceMax} : lastSleep' = Slept("pace", delay)
            /\ pacing' = Append(pacing, current_page - 1)
       ELSE UNCHANGED <<lastSleep, pacing>>
    /\ pc' = "scrape_loop"
    /\ UNCHANGED <<scrapeVars, pageVars, fetchVars, fetchHist, fileVars, exit,
                   fetched, total_gets>>

scrape_search_results ==
    \/ scrape_loop
    \/ scrape_after_fetch
    \/ scrape_save_debug
    \/ scrape_find
    \/ scrape_parse
    \/ scrape_extend
    \/ scrape_pace

(* --------------------------------- main -------------------------------- *)
\* if args.format in ['json', 'both']: scraper.save_to_json(results, ...)
main_save_json ==
    /\ pc = "main_json"
    /\ IF format \in {"json", "both"}
       THEN json_file' = File(results.list)
       ELSE UNCHANGED json_file
    /\ pc' = "main_csv"
    /\ UNCHANGED <<scrapeVars, pageVars, fetchVars, fetchHist, debug_files, csv_file, exit,
                   lastSleep, fetched, pacing, total_gets>>

\* if args.format in ['csv', 'both']: scraper.save_to_csv(results, ...)
main_save_csv ==
    /\ pc = "main_csv"
    /\ IF format \in {"csv", "both"} /\ results.list # <<>>
       THEN csv_file' = File(results.list)
       ELSE UNCHANGED csv_file
    /\ pc' = "done"
    /\ exit' = "ok"
    /\ UNCHANGED <<scrapeVars, pageVars, fetchVars, fetchHist, debug_files, json_file,
                   lastSleep, fetched, pacing, total_gets>>

\* except Exception as e: logger.error(f"Unexpected error: {e}")
main_except ==
    /\ pc = "raised"
    /\ pc' = "done"
    /\ exit' = "error"
    /\ UNCHANGED <<scrapeVars, pageVars, fetchVars, fetchHist, fileVars, lastSleep, fetched,
                   pacing, total_gets>>

\* the run is inside time.sleep or session.get
Suspended ==
    \/ pc = "fetch_wait"
    \/ pc = "fetch_get"
    \/ pc = "fetch_eval" /\ (IsBlocked(response.text.text)
                              \/ IsBadStatus(response.status_code))
    \/ pc = "fetch_except" /\ RetriesLeft(retries + 1, max_retries)
    \/ pc = "scrape_pace" /\ current_page <= max_pages

\* mutant: the handler writes out what has been accumulated so far
keyboard_interrupt_flush ==
    /\ Suspended
    /\ pc' = "done"
    /\ exit' = "interrupted"
    /\ json_file' = File(all_results)
    /\ NewCall
    /\ UNCHANGED <<scrapeVars, pageVars, url, max_retries, fetch_result, debug_files,
                   csv_file, lastSleep, fetched, pacing, total_gets>>

\* KeyboardInterrupt raised in a sleep or in the request: no handler of
\* fetch_page, scrape_search_results or main matches it;
\* except KeyboardInterrupt: logger.info("Scraping interrupted by user")
\* (the locals of an interrupted call of fetch_page are gone)
keyboard_interrupt ==
    /\ Suspended
    /\ pc' = "done"
    /\ exit' = "interrupted"
    /\ NewCall
    /\ UNCHANGED <<scrapeVars, pageVars, url, max_retries, fetch_result, fileVars,
                   lastSleep, fetched, pacing, total_gets>>

main ==
    \/ main_start
    \/ main_save_json
    \/ main_save_csv
    \/ main_except
    \/ keyboard_interrupt

\* the extraction from one page: find_listings and the loop over the listings
NextExtract == scrape_find \/ scrape_parse \/ scrape_extend

SpecExtract == InitExtract /\ [][NextExtract]_vars

Next == main \/ scrape_search_results \/ fetch_page

Spec == Init /\ [][Next]_vars

SpecRun == InitRun /\ [][Next]_vars

(* ============================ the properties =========================== *)
\* the current call of fetch_page has returned
Returned == pc = "fetch_return"

(* ---- C1 ---- *)
\* C1: whatever the outcomes of the attempts, a call of fetch_page never
\* issues more GET requests than max_retries.
C1_GetsBounded == gets <= max_retries

\* a call that used its whole budget, with a network error among the attempts
C1_Witness ==
    /\ Returned
    /\ max_retries >= 2
    /\ gets = max_retries
    /\ \E i \in 1..Len(cooldowns) : cooldowns[i].after = "network"

(* ---- C2 ---- *)
\* C2: when every attempt got a response whose status is not 200, the call
\* returns None after exactly max_retries GET requests.
C2_Non200Exhausts ==
    (Returned /\ allNon200) => (gets = max_retries /\ fetch_result = None)

C2_Witness ==
    /\ Returned
    /\ allNon200
    /\ max_retries >= 2
    /\ gets = max_retries
    /\ \E i \in 1..Len(cooldowns) : cooldowns[i].after = "status"

(* ---- C3 ---- *)
\* C3 as stated: when every attempt got a body containing "unusual traffic"
\* (in any letter case), the call returns None after max_retries attempts.
C3_Original ==
    (Returned /\ allTraffic) => (fetch_result = None /\ gets = max_retries)

\* C3 amended: when every attempt got a body containing "detected unusual
\* traffic" (in any letter case, whatever the status), the call returns None
\* after max_retries attempts, each followed by the fixed cooldown of
\* retry_delay seconds; a body with that phrase is never the result.
C3_DetectedExhausts ==
    /\ (Returned /\ allDetected) =>
          /\ fetch_result = None
          /\ gets = max_retries
          /\ Len(cooldowns) = max_retries
          /\ \A i \in 1..Len(cooldowns) :
                cooldowns[i].after = "blocked" /\ cooldowns[i].dur = retry_delay
    /\ (fetch_result # None => ~HasDetectedTraffic(fetch_result))

C3_Witness ==
    /\ Returned
    /\ allDetected
    /\ max_retries >= 2
    /\ Len(cooldowns) = max_retries

C5_ThinkBeforeGet ==
    /\ \A i \in 1..Len(events) :
          events[i] = "get" =>
              /\ i > 1
              /\ events[i - 1] = "think"
              /\ (i > 2 => events[i - 2] # "think")
    /\ pc = "fetch_get" =>
          /\ lastSleep.kind = "think"
          /\ lastSleep.dur >= 2
          /\ lastSleep.dur <= 5

\* a retry is about to be sent, after its think-time sleep
C5_Witness ==
    /\ pc = "fetch_get"
    /\ gets >= 1
    /\ events[Len(events)] = "think"

(* ---- C6 ---- *)
\* scrape_search_results has returned to main
ScrapeReturned == results # None

\* the records a fetch result contributes to the output
PageRecords(result) ==
    IF result = None THEN <<>> ELSE ParseAll(find_listings(result))

RECURSIVE AllRecords(_)
AllRecords(calls) ==
    IF calls = <<>> THEN <<>>
    ELSE PageRecords(Head(calls).result) \o AllRecords(Tail(calls))

\* C6: the pages are fetched once each in increasing order, page 1 with the
\* base URL and page n > 1 with "?page=n" appended; a failed page does not
\* stop the later ones, and what is returned is the records of all the pages
\* that were fetched.
C6_EveryPageFetched ==
    /\ Len(fetched) <= max_pages
    /\ \A i \in 1..Len(fetched) :
          /\ fetched[i].page = i
          /\ fetched[i].url =
                (IF i = 1 THEN base_url ELSE base_url \o <<"?page=", ToString(i)>>)
    /\ ScrapeReturned =>
          /\ Len(fetched) = max_pages
          /\ results.list = AllRecords(fetched)

\* a run in which page 1 failed and a later page gave records
C6_Witness ==
    /\ ScrapeReturned
    /\ max_pages >= 2
    /\ fetched[1].result = None
    /\ fetched[2].result # None
    /\ results.list # <<>>

(* ---- C7 ---- *)
\* C7 as stated: a returned run has slept the pacing sleep exactly once
\* after each page but the last, whether the page was fetched or not.
C7_Original ==
    ScrapeReturned => pacing = [k \in 1..(max_pages - 1) |-> k]

(* ---- C8 ---- *)
Fields == {"title", "price", "location", "date_posted", "link", "image_url"}

\* C8 as stated: every record of the output has the six fields, each a
\* non-empty string (extracted text or the sentinel "N/A").
C8_Original ==
    \A i \in 1..Len(all_results) :
        /\ DOMAIN all_results[i] = Fields
        /\ \A f \in Fields : all_results[i][f] # <<>>

(* ---- C9 ---- *)
\* C9 as stated: once the handling of a page is over, the body fetch_page
\* returned for it (any body, the empty one included) is in its debug file.
C9_Original ==
    \A i \in 1..Len(fetched) :
        (i < current_page /\ fetched[i].result # None) =>
            debug_files[i] = fetched[i].result

(* ---- C10 ---- *)
\* C10 as stated: no error aborts the run: when the process ends, the
\* records accumulated so far have been returned to main for persistence.
C10_Original ==
    (pc = "done" /\ all_results # <<>>) => results = List(all_results)

(* ---- C11 ---- *)
\* the earliest selector of a cascade that finds a node
Earliest(matches) ==
    CHOOSE i \in 1..Len(matches) :
        /\ matches[i] # None
        /\ \A j \in 1..(i - 1) : matches[j] = None

\* the value of a text field, given what the selectors of its cascade find
EarliestWins(matches, value) ==
    IF \E i \in 1..Len(matches) : matches[i] # None
    THEN value = Strip(matches[Earliest(matches)].text)
    ELSE value = NA

\* C11: each text field of a record is the trimmed text of the earliest
\* selector of its cascade that matches in the element, also when a later
\* selector matches too, and the sentinel when no selector matches.
C11_EarliestSelectorWins ==
    \A i \in 1..Len(parsed) :
        parsed[i] # None =>
            /\ EarliestWins(listings[i].title, parsed[i].title)
            /\ EarliestWins(listings[i].price, parsed[i].price)
            /\ EarliestWins(listings[i].loc, parsed[i].location)
            /\ EarliestWins(listings[i].date, parsed[i].date_posted)

\* an element whose title is found by two selectors with different texts
C11_Witness ==
    \E i \in 1..Len(parsed) :
        /\ parsed[i] # None
        /\ \E j, k \in 1..5 :
              /\ j < k
              /\ listings[i].title[j] = Node(<<"cur">>)
              /\ listings[i].title[k] = Node(<<" ", "leg", " ">>)
              /\ parsed[i].title = <<"cur">>

(* ---- C12 ---- *)
\* find_listings has returned for the page in html_content
Located == pc \in {"scrape_parse", "scrape_extend"}

\* the listing selectors, by priority, that match something on the page
MatchingSelectors(page) ==
    {k \in 1..5 : \E i \in 1..Len(page.elems) : k \in page.elems[i].lsel}

AllSentinel(r) == \A f \in Fields : r[f] = NA
\* no field of the record is the sentinel
RealValues(r) == \A f \in Fields : r[f] # NA /\ r[f] # <<>>

\* a page of 3 elements: 2 matched by a known listing selector, 1 matched by
\* none of them that passes the structural test of the general approach
ThreeListings(page) ==
    /\ page # None
    /\ Len(page.elems) = 3
    /\ Cardinality({i \in 1..3 : page.elems[i].lsel # {}}) = 2
    /\ \E i \in 1..3 :
          /\ page.elems[i].lsel = {}
          /\ page.elems[i].classed
          /\ page.elems[i].heading
          /\ page.elems[i].rupee
    /\ \A i \in 1..3 : ~page.elems[i].broken

\* a run of one page, fetched, that is such a page
OnePageOfThree ==
    /\ ScrapeReturned
    /\ max_pages = 1
    /\ Len(fetched) = 1
    /\ ThreeListings(fetched[1].result)
    /\ \E k \in 1..5 : \A i \in 1..3 :
          fetched[1].result.elems[i].lsel \in {{}, {k}}

\* C13 as stated: the run returns 3 records, 2 with real values and 1 made
\* of sentinels.
C13_Original ==
    OnePageOfThree =>
        /\ Len(results.list) = 3
        /\ Cardinality({i \in 1..3 : RealValues(results.list[i])}) = 2
        /\ Cardinality({i \in 1..3 : AllSentinel(results.list[i])}) = 1

\* C13 amended: the run returns 2 records, those of the two elements the
\* known selector matches, in page order, both with real values; the third
\* element is not located.
C13_TwoRecords ==
    OnePageOfThree =>
        /\ Len(results.list) = 2
        /\ \A i \in 1..2 : RealValues(results.list[i])
        /\ results.list[1].title # results.list[2].title

C13_Witness ==
    /\ OnePageOfThree
    /\ Len(results.list) = 2
    /\ debug_files[1] = fetched[1].result

(* ---- C14 ---- *)
\* the value is a URL with a scheme of its own (scheme names are matched in
\* any letter case)
IsAbsoluteUrl(s) ==
    \E p \in {<<"http", "://">>, <<"http", "s", "://">>, <<"tel", ":">>} :
        StartsWith(Lower(s), p)

\* the elements of the page have all been parsed
Parsed == pc = "scrape_extend" /\ Len(parsed) = Len(listings)

\* C14 as stated: the link of every record is "N/A" when the element has no
\* anchor with an href, the href itself when that is already an absolute
\* URL, and the site origin followed by the href otherwise.
C14_Original ==
    Parsed =>
        \A i \in 1..Len(parsed) :
            parsed[i] # None =>
                LET a == listings[i].a
                IN IF a = None \/ a.href = None THEN parsed[i].link = NA
                   ELSE IF IsAbsoluteUrl(a.href.str)
                        THEN parsed[i].link = a.href.str
                        ELSE /\ parsed[i].link = Origin \o a.href.str
                             /\ IsAbsoluteUrl(parsed[i].link)

(* ---- C15 ---- *)
\* C15: a run that was interrupted in a sleep or in a request has ended at
\* the top-level handler and has written neither the JSON nor the CSV file.
C15_NoOutputOnInterrupt ==
    exit = "interrupted" =>
        /\ pc = "done"
        /\ json_file = None
        /\ csv_file = None

\* interrupted in the pacing sleep after a page that gave records
C15_Witness ==
    /\ exit = "interrupted"
    /\ all_results # <<>>
    /\ current_page = 2
    /\ max_pages = 2
    /\ Len(fetched) = 1
    /\ json_file = None

(* ---- C16 ---- *)
\* the body carries one of the two block-indicator phrases, in any letter case
BlockIndicator(body) ==
    \/ Contains(Lower(body.text), <<"captcha">>)
    \/ HasDetectedTraffic(body)

\* the response of the attempt is a status 200 without a block indicator
GoodAttempt ==
    /\ response.status_code = 200
    /\ ~BlockIndicator(response.text)

\* the step that follows the arrival of a response
AttemptDecided ==
    pc = "fetch_eval" =>
        IF GoodAttempt
        THEN /\ pc' = "fetch_return"
             /\ fetch_result' = response.text
             /\ <<gets, events, cooldowns, lastSleep>>' = <<gets, events, cooldowns, lastSleep>>
        ELSE /\ pc' = "fetch_loop"
             /\ retries' = retries + 1
             /\ events' = Append(events, "cooldown")
             /\ fetch_result' = fetch_result

\* a body was returned: it came with the last GET, every GET before it was
\* followed by a cooldown, and nothing was slept after it
GoodReturned ==
    (Returned /\ fetch_result # None) =>
        /\ ~BlockIndicator(fetch_result)
        /\ gets = Len(cooldowns) + 1
        /\ Len(events) >= 2
        /\ events[Len(events)] = "get"
        /\ events[Len(events) - 1] = "think"
        /\ lastSleep.kind = "think"

\* C16: the call returns the body of the first attempt that got a status 200
\* without a block indicator and ends there, with no further GET and no
\* further sleep; a status 200 with a block indicator is a failed attempt.
C16_FirstGoodAttemptReturned ==
    /\ []GoodReturned
    /\ [][AttemptDecided /\ ~Returned]_vars

\* a body returned by the second attempt, the first one found blocked
C16_Witness ==
    /\ Returned
    /\ fetch_result # None
    /\ fetch_result.elems # <<>>
    /\ gets = 2
    /\ cooldowns[1].after = "blocked"

(* ---- C17 ---- *)
\* the located elements whose extraction raises
Raised == {i \in 1..Len(listings) : listings[i].broken}

\* C17: when the loop over the located elements of a page has ended, every
\* element was processed, the ones whose extraction raised gave no record,
\* every other one gave its record, in the order of the elements, and the
\* page contributes as many records as located elements minus the raised ones.
C17_RaisedElementsSkipped ==
    pc = "scrape_extend" =>
        /\ Len(parsed) = Len(listings)
        /\ \A i \in 1..Len(listings) : (parsed[i] = None) <=> (i \in Raised)
        /\ Len(page_results) = Len(listings) - Cardinality(Raised)
        /\ page_results = SelectSeq(parsed, LAMBDA r : r # None)

\* an element that raises, between two that give a record
C17_Witness ==
    /\ pc = "scrape_extend"
    /\ Len(listings) = 3
    /\ Raised = {2}
    /\ Len(page_results) = 2

(* ---- C18 ---- *)
\* a call of fetch_page is at its first line
CallStarts == pc = "fetch_loop" /\ events = <<>>

\* C18: every call of fetch_page starts with a retry counter of 0 and a
\* budget of 3 attempts, whatever happened on the pages before; a call issues
\* at most 3 GET requests, there is at most one call for each page, and the
\* GET requests of the run never exceed 3 for each page.
C18_BudgetPerPage ==
    /\ CallStarts => (retries = 0 /\ gets = 0 /\ max_retries = 3)
    /\ gets <= 3
    /\ Len(fetched) <= max_pages
    /\ total_gets <= 3 * Len(fetched)
    /\ total_gets <= 3 * max_pages

\* the second page gets its third attempt after the first page used up all
\* of its three
C18_Witness ==
    /\ Len(fetched) = 2
    /\ fetched[1].result = None
    /\ gets = 3
    /\ total_gets = 6
    /\ Returned
    /\ fetch_result # None

(* ---- C19 ---- *)
\* s is the beginning of t
IsPrefix(s, t) == Len(s) <= Len(t) /\ SubSeq(t, 1, Len(s)) = s

\* the accumulated records are those of the pages done so far, page after
\* page, each page's records in the order of its located elements
OrderedByPage ==
    /\ Len(fetched) >= current_page - 1
    /\ all_results = AllRecords(SubSeq(fetched, 1, current_page - 1))
    /\ ScrapeReturned => results.list = all_results

\* a step leaves the accumulated records in place and in order; it adds
\* records only at the end, those of the page in hand, in the order of
\* their elements
AppendOnly ==
    /\ IsPrefix(all_results, all_results')
    /\ all_results' # all_results =>
          /\ pc = "scrape_extend"
          /\ Len(fetched) = current_page
          /\ current_page' = current_page + 1
          /\ all_results' = all_results \o SelectSeq(parsed, LAMBDA r : r # None)

\* C19: the returned sequence is ordered by page and, within a page, by the
\* order of the located elements; no step removes, reorders or modifies a
\* record already appended, so the length never decreases.
C19_AppendOnlyInPageOrder ==
    /\ []OrderedByPage
    /\ [][AppendOnly]_vars

\* a returned run with records of two different pages
C19_Witness ==
    /\ ScrapeReturned
    /\ Len(fetched) = 2
    /\ fetched[1].result # fetched[2].result
    /\ PageRecords(fetched[1].result) # <<>>
    /\ PageRecords(fetched[2].result) # <<>>
    /\ Len(results.list) >= 3

(* ---- C20 ---- *)
\* the attempt in hand is the last one of the budget
LastAttempt == retries + 1 = max_retries

\* what follows the last attempt: after a response that is blocked or not a
\* 200 the fixed cooldown is slept and the loop is entered once more; after
\* a network error the call returns None with nothing slept
LastAttemptFollowedUp ==
    /\ (pc = "fetch_eval" /\ LastAttempt /\ ~GoodAttempt) =>
          /\ lastSleep' = Slept("cooldown", 30)
          /\ events' = Append(events, "cooldown")
          /\ Len(cooldowns') = Len(cooldowns) + 1
          /\ pc' = "fetch_loop"
          /\ fetch_result' = fetch_result
    /\ (pc = "fetch_except" /\ LastAttempt) =>
          /\ pc' = "fetch_return"
          /\ fetch_result' = None
          /\ <<lastSleep, events, cooldowns>>' = <<lastSleep, events, cooldowns>>

\* a call that used its budget and returned None: either its last GET was
\* followed by the fixed cooldown, after a blocked or non-200 response, or
\* nothing followed its last GET, which failed with a network error
ExhaustedCall ==
    (Returned /\ fetch_result = None /\ gets > 0) =>
        /\ gets = max_retries
        /\ \/ /\ events[Len(events)] = "cooldown"
              /\ Len(cooldowns) = gets
              /\ cooldowns[gets].after \in {"blocked", "status"}
              /\ cooldowns[gets].dur = 30
              /\ lastSleep = Slept("cooldown", 30)
           \/ /\ events[Len(events)] = "get"
              /\ Len(cooldowns) = gets - 1
              /\ lastSleep.kind = "think"

\* C20: after a blocked or non-200 attempt that exhausts the budget the
\* fixed cooldown is still slept before the call returns None; after a
\* network error that exhausts the budget the call returns None at once.
C20_FinalSleepByFailureKind ==
    /\ []ExhaustedCall
    /\ [][LastAttemptFollowedUp]_vars

\* a call whose last attempt was found blocked, after a network error
C20_Witness ==
    /\ Returned
    /\ fetch_result = None
    /\ max_retries = 3
    /\ Len(cooldowns) = 3
    /\ cooldowns[1].after = "network"
    /\ cooldowns[3].after = "blocked"
    /\ lastSleep = Slept("cooldown", 30)
====
